---- MODULE Spec2Model ----
(***************************************************************************)
(* Model of the FOREST / Tyrell synthesis driver:                          *)
(*   forest/synthesizer/ktree_synthesizer.py    KTreeSynthesizer           *)
(*   forest/synthesizer/multiple_synthesizer.py MultipleSynthesizer        *)
(*   tyrell/decider/example_decider.py          ExampleDecider             *)
(* One run of KTreeSynthesizer.synthesize() is a state machine whose steps *)
(* are the statements of synthesize / try_for_depth / distinguish /        *)
(* interact.  The kill flag `die` is set by a signal handler, so it may    *)
(* change between any two steps of the loop.                               *)
(***************************************************************************)
EXTENDS Integers, Sequences, FiniteSets, TLC

(* ---------------------------- bounds ----------------------------------- *)
\* number of distinct input strings the examples / the Distinguisher use
NInputs == 2
\* number of Programs in the Enumerator's (ordered) search space
NProgs == 16
\* longest valid_examples / invalid_examples list given to the constructor
MaxInit == 1

(* ----------------------- program constants ----------------------------- *)
\* ktree_synthesizer.py:21  range(3, ...)
MinDepth == 3
\* ktree_synthesizer.py:16  self.max_depth = 6
max_depth == 6
\* multiple_synthesizer.py:56  self.max_indistinguishable = 3
max_indistinguishable == 3

\* Python's None, where a string-valued field holds it
None == "None"
\* enumerate() returning None: no Program (the Enumerator is exhausted)
NoProgram == 0
\* dist_input is None: the Distinguisher found no distinguishing input
NoInput == 0

Inputs == 1..NInputs
Programs == 1..NProgs

(* ------------------ Programs and the Interpreter ----------------------- *)
\* A Program is identified by its position in the Enumerator's order.  Its
\* matcher is a language over Inputs: the four languages over the first two
\* inputs repeat through the order, so that structurally different Programs
\* with the same language exist (the "indistinguishable" case).
SemOf(p) == (p - 1) % 4
VariantOf(p) == (p - 1) \div 4

\* re.fullmatch(<rendered regex of p>, i) is not None
Matches(p, i) == ((SemOf(p) \div (2 ^ (i - 1))) % 2) = 1

\* the Interpreter cannot evaluate p: eval raises InterpreterError
Malformed(p) == p % 5 = 0

\* NodeCounter.eval: number of AST nodes
Nodes(p) == 1 + VariantOf(p)

\* len(self._printer.eval(r)): length of the rendered form
RenderLen(p) == 3 + ((2 * VariantOf(p)) % 3)

\* interpreter.eval(program, input) for a well-formed program
InterpreterEval(p, i) == Matches(p, i)

(* --------------------------- ExampleDecider ---------------------------- *)
Example(in, out) == [input |-> in, output |-> out]

\* ExampleDecider._equal_output (well-formed program)
equal_output(prog, in, desired_output) == desired_output = InterpreterEval(prog, in)

\* has_failed_examples testing only the first recorded example
has_failed_examples_first_only(prog, exs) ==
    IF exs = << >> THEN "False"
    ELSE IF Malformed(prog) THEN "InterpreterError"
    ELSE IF ~ equal_output(prog, Head(exs).input, Head(exs).output) THEN "True"
    ELSE "False"

\* has_failed_examples testing only the example recorded last
has_failed_examples_last_only(prog, exs) ==
    IF exs = << >> THEN "False"
    ELSE IF Malformed(prog) THEN "InterpreterError"
    ELSE IF ~ equal_output(prog, exs[Len(exs)].input, exs[Len(exs)].output) THEN "True"
    ELSE "False"

\* ExampleDecider.has_failed_examples: any(map(not _equal_output, examples)),
\* evaluated left to right and stopping at the first failed example; the
\* first evaluation of a malformed program raises InterpreterError.
RECURSIVE has_failed_examples(_, _)
has_failed_examples(prog, exs) ==
    IF exs = << >> THEN "False"
    ELSE IF Malformed(prog) THEN "InterpreterError"
    ELSE IF ~ equal_output(prog, Head(exs).input, Head(exs).output) THEN "True"
    ELSE has_failed_examples(prog, Tail(exs))

\* ExampleDecider.get_failed_examples: list(filter(not _equal_output, examples))
\* (raises: the first evaluation of a malformed program raised InterpreterError)
get_failed_examples(prog, exs) ==
    IF exs # << >> /\ Malformed(prog)
    THEN [raises |-> TRUE, failed |-> << >>]
    ELSE [raises |-> FALSE,
          failed |-> SelectSeq(exs, LAMBDA x : ~ equal_output(prog, x.input, x.output))]
\* analyze answering ok for a program with failed examples
analyze_accepts_failed(prog, exs) ==
    LET failed == has_failed_examples(prog, exs)
    IN  IF failed = "InterpreterError" THEN "InterpreterError" ELSE "ok"
\* analyze answering bad for every program it can evaluate
analyze_never_ok(prog, exs) ==
    LET failed == has_failed_examples(prog, exs)
    IN  IF failed = "InterpreterError" THEN "InterpreterError" ELSE "bad"

\* ExampleDecider.analyze
analyze(prog, exs) ==
    LET failed == has_failed_examples(prog, exs)
    IN  IF failed = "InterpreterError" THEN "InterpreterError"
        ELSE IF failed = "True" THEN "bad"
        ELSE "ok"

\* add_example inserting the new example at the front of the list
add_example_prepend(exs, ex_in, ex_out) == << Example(ex_in, ex_out) >> \o exs

\* ExampleDecider.add_example: self.examples.append(Example(ex_in, ex_out))
add_example(exs, ex_in, ex_out) == Append(exs, Example(ex_in, ex_out))

(* ------------------------------ state ---------------------------------- *)
VARIABLES
    valid,              \* self.valid
    invalid,            \* self.invalid
    examples,           \* self.examples (the list the Decider shares)
    pruning,            \* self.pruning
    auto_interaction,   \* self.auto_interaction
    ground_truth,       \* self.ground_truth: its text and the language it denotes
    enumerator,         \* self._enumerator
    programs,           \* self.programs: sequence of (regex, captures)
    indistinguishable,  \* self.indistinguishable
    num_interactions,   \* self.num_interactions
    die,                \* self.die
    dep,                \* loop variable of synthesize
    regex,              \* local of try_for_depth
    new_predicates,     \* local of try_for_depth
    prompt,             \* pending interact() call: its arguments
    pc,                 \* position of the run
    outcome,            \* what synthesize() hands back to its caller
    depths_tried,       \* history: depths an Enumerator was created for
    broke_on,           \* history: why try_for_depth left its loop
    killed_at_answer,   \* history: value of die when the last oracle
                        \* interaction returned
    reprompted,         \* history: interact() has rejected a malformed
                        \* answer to the latest prompt
    last_line           \* the line input() returned in interact(), until the
                        \* loop is done with it

vars == << valid, invalid, examples, pruning, auto_interaction, ground_truth,
           enumerator, programs, indistinguishable, num_interactions, die,
           dep, regex, new_predicates, prompt, pc, outcome, depths_tried,
           broke_on, killed_at_answer, reprompted, last_line >>

\* the elements of a set of inputs as a list, in increasing order
RECURSIVE ListOf(_)
ListOf(S) ==
    IF S = {} THEN << >>
    ELSE LET m == CHOOSE x \in S : \A y \in S : x <= y
         IN  << m >> \o ListOf(S \ { m })

\* the example lists a caller may pass: at most n distinct inputs each
ExampleLists(n) == { ListOf(S) : S \in { T \in SUBSET Inputs : Cardinality(T) <= n } }

\* [Example(x, True) for x in valid] + [Example(x, False) for x in invalid]
InitialExamples(v, iv) ==
    [ k \in 1..Len(v) |-> Example(v[k], TRUE) ] \o
    [ k \in 1..Len(iv) |-> Example(iv[k], FALSE) ]

\* self._enumerator = None
NoEnumerator ==
    [depth |-> 0, cursor |-> 0, pending |-> FALSE, exhausted |-> FALSE,
     last_update |-> None]

\* how a call of synthesize() stands: still running, left by an exception,
\* or returned a value
Running == [kind |-> "running", value |-> None]
Raised(exception) == [kind |-> "raised", value |-> exception]

\* interact() has read no line
NoLine == [token |-> None, upper |-> FALSE, lead |-> FALSE, trail |-> FALSE]

NoPrompt == [dist_input |-> NoInput, keep_if_valid |-> << >>, keep_if_invalid |-> << >>]
\* a ground truth: the text handed to the constructor, and the language it
\* denotes as a regular expression (the inputs re.fullmatch accepts)
NoGroundTruth == [text |-> "", language |-> {}]
UsableGroundTruths == { [text |-> "regex", language |-> L] : L \in SUBSET Inputs }
GroundTruths == UsableGroundTruths \cup { NoGroundTruth, [text |-> "(", language |-> {}] }

\* forest.utils.is_regex
is_regex(text) == text = "regex"

\* MultipleSynthesizer.__init__ (with RegexDecider / ExampleDecider.__init__,
\* which rejects an empty example list).  pruning and auto_interaction are
\* the constructor's parameters, chosen by the subclass that calls it;
\* KTreeSynthesizer.__init__ passes its `configuration` in the position of
\* `pruning` and leaves auto_interaction at its default False.
Init ==
    /\ valid \in ExampleLists(MaxInit)
    /\ invalid \in ExampleLists(MaxInit)
    /\ Len(valid) + Len(invalid) > 0
    /\ examples = InitialExamples(valid, invalid)
    /\ pruning \in BOOLEAN
    /\ auto_interaction \in BOOLEAN
    /\ ground_truth \in IF auto_interaction THEN UsableGroundTruths
                        ELSE { NoGroundTruth }
    /\ enumerator = NoEnumerator
    /\ programs = << >>
    /\ indistinguishable = 0
    /\ num_interactions = 0
    /\ die = FALSE
    /\ dep = 0
    /\ regex = NoProgram
    /\ new_predicates = None
    /\ prompt = NoPrompt
    /\ pc = "synthesize"
    /\ outcome = Running
    /\ depths_tried = << >>
    /\ broke_on = None
    /\ killed_at_answer = FALSE
    /\ reprompted = FALSE
    /\ last_line = NoLine

(* ----------------------------- Enumerator ------------------------------ *)
\* KTreeEnumerator(self.dsl, dep): a fresh search state for one depth bound
NewEnumerator(d) ==
    [depth |-> d, cursor |-> 0, pending |-> FALSE, exhausted |-> FALSE,
     last_update |-> None]

\* Enumerator.next(): the Programs it may return next (distinct Programs in
\* a fixed order; the grammar and the pruning state decide which positions
\* are skipped), or None when it is exhausted
EnumeratorNext(e) ==
    IF e.exhausted THEN { NoProgram } ELSE (e.cursor + 1 .. NProgs) \cup { NoProgram }

EnumeratorAfterNext(e, p) ==
    IF p = NoProgram
    THEN [e EXCEPT !.exhausted = TRUE, !.pending = FALSE, !.last_update = None]
    ELSE [e EXCEPT !.cursor = p, !.pending = TRUE, !.last_update = None]

\* Enumerator.update(predicates)
EnumeratorUpdate(e, preds) ==
    [e EXCEPT !.pending = FALSE, !.last_update = IF preds = None THEN "none" ELSE preds]

(* ----------------------------- Distinguisher --------------------------- *)
Candidate(r, c) == [regex |-> r, captures |-> c]

\* inputs on which at least two candidates disagree
DistinguishingInputs(cands) ==
    { i \in Inputs : \E a, b \in 1..Len(cands) :
          Matches(cands[a].regex, i) # Matches(cands[b].regex, i) }

\* Distinguisher.distinguish(programs): the results it may return.  The
\* candidates of `u` were not evaluated on the input and are left unknown;
\* the others are placed by their own verdict on it.
DistinguisherResults(cands) ==
    IF DistinguishingInputs(cands) = {}
    THEN { [dist_input |-> NoInput, keep_if_valid |-> << >>,
            keep_if_invalid |-> << >>, unknown |-> << >>] }
    ELSE { [dist_input |-> i,
            keep_if_valid |->
                SelectSeq(cands, LAMBDA c : c \notin u /\ Matches(c.regex, i)),
            keep_if_invalid |->
                SelectSeq(cands, LAMBDA c : c \notin u /\ ~ Matches(c.regex, i)),
            unknown |-> SelectSeq(cands, LAMBDA c : c \in u)] :
           i \in DistinguishingInputs(cands),
           u \in SUBSET { cands[k] : k \in 1..Len(cands) } }
\* the loop over `unknown` skipped: unknown candidates are placed nowhere
ResolveUnknown_skipped(d) ==
    [dist_input |-> d.dist_input,
     keep_if_valid |-> d.keep_if_valid,
     keep_if_invalid |-> d.keep_if_invalid]

\* multiple_synthesizer.py:119-124: the loop over `unknown`
ResolveUnknown(d) ==
    [dist_input |-> d.dist_input,
     keep_if_valid |-> d.keep_if_valid \o
         SelectSeq(d.unknown, LAMBDA c : Matches(c.regex, d.dist_input)),
     keep_if_invalid |-> d.keep_if_invalid \o
         SelectSeq(d.unknown, LAMBDA c : ~ Matches(c.regex, d.dist_input))]

\* min(self.programs, key=lambda r: len(self._printer.eval(r))): the first
\* candidate of least rendered length
smallest_regex(cands) ==
    LET k == CHOOSE k \in 1..Len(cands) :
                 /\ \A j \in 1..Len(cands) :
                        RenderLen(cands[k].regex) <= RenderLen(cands[j].regex)
                 /\ \A j \in 1..(k - 1) :
                        RenderLen(cands[j].regex) > RenderLen(cands[k].regex)
    IN  cands[k]

(* ----------------------------- oracle answers -------------------------- *)
\* multiple_synthesizer.py:17-18
yes_values == {"yes", "valid", "true", "1", "+", "v", "y", "t"}
no_values == {"no", "invalid", "false", "0", "-", "i", "n", "f"}

\* A typed line: a token, possibly upper-cased, possibly with leading and
\* trailing whitespace
Answers ==
    [token : yes_values \cup no_values \cup {"maybe"},
     upper : BOOLEAN, lead : BOOLEAN, trail : BOOLEAN]

\* str.lower()
lower(x) == [x EXCEPT !.upper = FALSE]
\* str.rstrip(): strips trailing whitespace only
rstrip(x) == [x EXCEPT !.trail = FALSE]
Bare(tokens) ==
    { [token |-> t, upper |-> FALSE, lead |-> FALSE, trail |-> FALSE] : t \in tokens }

\* x.lower().rstrip() in yes_values / no_values
is_yes(x) == rstrip(lower(x)) \in Bare(yes_values)
\* interact taking every line that is not affirmative as 'invalid'
is_no_by_default(x) == ~ (rstrip(lower(x)) \in Bare(yes_values))

is_no(x) == rstrip(lower(x)) \in Bare(no_values)

\* re.fullmatch(self.ground_truth, dist_input) is not None
ground_truth_matches(i) == i \in ground_truth.language

(* ------------------------------- Capturer ------------------------------ *)
\* Capturer.synthesize_capturing_groups(regex): None, or a list of capture
\* groups (rendered here by its text)
CapturerResults(r) == { None, "[g1]" }

(* --------------------- KTreeSynthesizer.synthesize --------------------- *)
\* ktree_synthesizer.py:19-22: first iteration of `for dep in range(3, ...)`
synthesize_start ==
    /\ pc = "synthesize"
    /\ dep' = MinDepth
    /\ enumerator' = NewEnumerator(MinDepth)
    /\ depths_tried' = Append(depths_tried, MinDepth)
    /\ pc' = "enumerate"
    /\ UNCHANGED << valid, invalid, examples, pruning, auto_interaction,
                    ground_truth, programs, indistinguishable,
                    num_interactions, die, regex, new_predicates, prompt,
                    outcome, broke_on, killed_at_answer, reprompted, last_line >>

\* multiple_synthesizer.py:192-195 with enumerate(), 138-155
try_for_depth_enumerate ==
    /\ pc = "enumerate"
    /\ \E p \in EnumeratorNext(enumerator) :
          /\ enumerator' = EnumeratorAfterNext(enumerator, p)
          /\ regex' = p
    /\ new_predicates' = None
    /\ pc' = "poll"
    /\ UNCHANGED << valid, invalid, examples, pruning, auto_interaction,
                    ground_truth, programs, indistinguishable,
                    num_interactions, die, dep, prompt, outcome,
                    depths_tried, broke_on, killed_at_answer, reprompted,
                    last_line >>

\* multiple_synthesizer.py:197-198 `if regex is None or self.die: break`,
\* then 240-241: try_for_depth returns
try_for_depth_poll ==
    /\ pc = "poll"
    /\ IF regex = NoProgram \/ die
       THEN /\ pc' = "returned"
            /\ broke_on' = IF regex = NoProgram THEN "exhausted" ELSE "killed"
       ELSE /\ pc' = "analyze"
            /\ UNCHANGED broke_on
    /\ UNCHANGED << valid, invalid, examples, pruning, auto_interaction,
                    ground_truth, enumerator, programs, indistinguishable,
                    num_interactions, die, dep, regex, new_predicates,
                    prompt, outcome, depths_tried, killed_at_answer, reprompted, last_line >>

\* Result.why() of a rejection: predicates, or None when no cause is localized
WhyResults == { None, "predicates" }

\* multiple_synthesizer.py:200-203, 226-227: res = self._decider.analyze(regex).
\* An InterpreterError is caught neither by analyze, nor by try_for_depth,
\* nor by synthesize: it leaves synthesize.
try_for_depth_analyze ==
    /\ pc = "analyze"
    /\ LET res == analyze(regex, examples)
       IN  \/ /\ res = "ok"
              /\ pc' = "capture"
              /\ UNCHANGED << new_predicates, outcome >>
           \/ /\ res = "bad"
              /\ new_predicates' \in WhyResults
              /\ pc' = "update"
              /\ UNCHANGED outcome
           \/ /\ res = "InterpreterError"
              /\ outcome' = Raised("InterpreterError")
              /\ pc' = "done"
              /\ UNCHANGED new_predicates
    /\ UNCHANGED << valid, invalid, examples, pruning, auto_interaction,
                    ground_truth, enumerator, programs, indistinguishable,
                    num_interactions, die, dep, regex, prompt, depths_tried,
                    broke_on, killed_at_answer, reprompted, last_line >>

\* try_for_depth appending every accepted Program, with or without captures
append_accepted_always(progs, r, captures) == Append(progs, Candidate(r, captures))

\* multiple_synthesizer.py:217-218: `if captures is not None:
\* self.programs.append((regex, captures))`
append_accepted(progs, r, captures) ==
    IF captures # None THEN Append(progs, Candidate(r, captures)) ELSE progs

\* multiple_synthesizer.py:210-219
try_for_depth_capture ==
    /\ pc = "capture"
    /\ \E captures \in CapturerResults(regex) :
          programs' = append_accepted(programs, regex, captures)
    /\ pc' = IF Len(programs') >= 2 THEN "distinguish" ELSE "threshold"
    /\ UNCHANGED << valid, invalid, examples, pruning, auto_interaction,
                    ground_truth, enumerator, indistinguishable,
                    num_interactions, die, dep, regex, new_predicates,
                    prompt, outcome, depths_tried, broke_on,
                    killed_at_answer, reprompted, last_line >>

(* ------------------------ oracle interaction --------------------------- *)
\* interact keeping the partition that contradicts the answer
interact_programs_swapped(x, keep_if_valid, keep_if_invalid) ==
    IF is_yes(x) THEN keep_if_invalid ELSE keep_if_valid
\* interact dropping every candidate on an accepted answer
interact_programs_dropped(x, keep_if_valid, keep_if_invalid) == << >>

\* interact, 163-173: the partition an accepted answer x keeps
interact_programs(x, keep_if_valid, keep_if_invalid) ==
    IF is_yes(x) THEN keep_if_valid ELSE keep_if_invalid

\* interact, 166 / 172: the Example an accepted answer x records
interact_examples(exs, x, dist_input) ==
    add_example(exs, dist_input, is_yes(x))
\* auto_distinguish keeping the partition that contradicts the ground truth
auto_distinguish_programs_swapped(dist_input, keep_if_valid, keep_if_invalid) ==
    IF ground_truth_matches(dist_input) THEN keep_if_invalid ELSE keep_if_valid

\* auto_distinguish, 180-188: the partition the ground truth keeps
auto_distinguish_programs(dist_input, keep_if_valid, keep_if_invalid) ==
    IF ground_truth_matches(dist_input) THEN keep_if_valid ELSE keep_if_invalid

\* auto_distinguish, 183 / 187: the Example the ground truth records
auto_distinguish_examples(exs, dist_input) ==
    add_example(exs, dist_input, ground_truth_matches(dist_input))

\* multiple_synthesizer.py:220-222 with distinguish(), 107-136.  In
\* automatic mode the whole call is one step; in interactive mode it stops
\* at the first input() of interact().
try_for_depth_distinguish ==
    /\ pc = "distinguish"
    /\ \E d \in DistinguisherResults(programs) :
          IF d.dist_input # NoInput
          THEN LET r == ResolveUnknown(d)
               IN  /\ num_interactions' = num_interactions + 1
                   /\ UNCHANGED indistinguishable
                   /\ IF auto_interaction
                      THEN /\ examples' = auto_distinguish_examples(examples, r.dist_input)
                           /\ programs' = auto_distinguish_programs(
                                  r.dist_input, r.keep_if_valid, r.keep_if_invalid)
                           /\ killed_at_answer' = die
                           /\ pc' = "threshold"
                           /\ UNCHANGED prompt
                      ELSE /\ prompt' = r
                           /\ pc' = "interact"
                           /\ UNCHANGED << examples, programs, killed_at_answer >>
          ELSE /\ indistinguishable' = indistinguishable + 1
               /\ programs' = << smallest_regex(programs) >>
               /\ pc' = "threshold"
               /\ UNCHANGED << num_interactions, examples, prompt, killed_at_answer >>
    /\ UNCHANGED << valid, invalid, pruning, auto_interaction, ground_truth,
                    enumerator, die, dep, regex, new_predicates, outcome,
                    depths_tried, broke_on, reprompted, last_line >>

\* interact, 161-174: input() returns the typed line x, which is tested
\* against the two token sets
interact_answer ==
    /\ pc = "interact"
    /\ \E x \in Answers :
          IF is_yes(x) \/ is_no(x)
          THEN /\ examples' = interact_examples(examples, x, prompt.dist_input)
               /\ programs' = interact_programs(
                      x, prompt.keep_if_valid, prompt.keep_if_invalid)
               /\ last_line' = x
               /\ prompt' = NoPrompt
               /\ killed_at_answer' = die
               /\ pc' = "threshold"
          ELSE /\ last_line' = x
               /\ pc' = "reprompt"
               /\ UNCHANGED << examples, programs, prompt, killed_at_answer >>
    /\ UNCHANGED reprompted
    /\ UNCHANGED << valid, invalid, pruning, auto_interaction, ground_truth,
                    enumerator, indistinguishable, num_interactions, die, dep,
                    regex, new_predicates, outcome, depths_tried, broke_on >>
\* interact, 174-176 and back to 161: the else branch logs 'Invalid answer'
\* and `while not valid_answer` asks again
interact_reprompt ==
    /\ pc = "reprompt"
    /\ reprompted' = TRUE
    /\ last_line' = NoLine
    /\ pc' = "interact"
    /\ UNCHANGED << valid, invalid, examples, pruning, auto_interaction,
                    ground_truth, enumerator, programs, indistinguishable,
                    num_interactions, die, dep, regex, new_predicates,
                    prompt, outcome, depths_tried, broke_on, killed_at_answer >>

\* multiple_synthesizer.py:224-225, then 240-241
try_for_depth_threshold ==
    /\ pc = "threshold"
    /\ IF indistinguishable >= max_indistinguishable
       THEN /\ pc' = "returned"
            /\ broke_on' = "threshold"
       ELSE /\ pc' = "update"
            /\ UNCHANGED broke_on
    /\ reprompted' = FALSE
    /\ last_line' = NoLine
    /\ UNCHANGED << valid, invalid, examples, pruning, auto_interaction,
                    ground_truth, enumerator, programs, indistinguishable,
                    num_interactions, die, dep, regex, new_predicates,
                    prompt, outcome, depths_tried, killed_at_answer >>

\* try_for_depth forwarding the predicates whether or not it prunes
update_argument_unpruned(prune, preds) == preds

\* multiple_synthesizer.py:235-238: what try_for_depth hands to update
update_argument(prune, preds) == IF prune THEN preds ELSE None

\* multiple_synthesizer.py:235-238
try_for_depth_update ==
    /\ pc = "update"
    /\ enumerator' = EnumeratorUpdate(
           enumerator, update_argument(pruning, new_predicates))
    /\ pc' = "enumerate"
    /\ UNCHANGED << valid, invalid, examples, pruning, auto_interaction,
                    ground_truth, programs, indistinguishable,
                    num_interactions, die, dep, regex, new_predicates,
                    prompt, outcome, depths_tried, broke_on,
                    killed_at_answer, reprompted, last_line >>

\* ktree_synthesizer.py:26 `if len(self.solutions) > 0:` -- no class of the
\* hierarchy defines `solutions` (MultipleSynthesizer keeps its candidates
\* in `programs`), so the first evaluation of the test raises
\* AttributeError; lines 27-31 and later iterations of the loop never run.
synthesize_check ==
    /\ pc = "returned"
    /\ outcome' = Raised("AttributeError")
    /\ pc' = "done"
    /\ UNCHANGED << valid, invalid, examples, pruning, auto_interaction,
                    ground_truth, enumerator, programs, indistinguishable,
                    num_interactions, die, dep, regex, new_predicates,
                    prompt, depths_tried, broke_on, killed_at_answer,
                    reprompted, last_line >>

\* ktree_synthesizer.py:27 and 30 are the only calls of terminate(), each on
\* the line before a return of synthesize: the number of times terminate
\* has run
terminate_calls == IF outcome.kind = "returned" THEN 1 ELSE 0

\* the signal handler sets self.die while synthesize is running
kill ==
    /\ pc \notin { "construct", "done" }
    /\ ~ die
    /\ die' = TRUE
    /\ UNCHANGED << valid, invalid, examples, pruning, auto_interaction,
                    ground_truth, enumerator, programs, indistinguishable,
                    num_interactions, dep, regex, new_predicates, prompt, pc,
                    outcome, depths_tried, broke_on, killed_at_answer,
                    reprompted, last_line >>
(* ---------------- construction of a MultipleSynthesizer ---------------- *)
\* the arguments of the constructor, before it has run.  The ground truth
\* is only read in automatic mode, so it is left out in interactive mode.
InitConstruct ==
    /\ valid \in ExampleLists(MaxInit)
    /\ invalid \in ExampleLists(MaxInit)
    /\ examples = << >>
    /\ pruning \in BOOLEAN
    /\ auto_interaction \in BOOLEAN
    /\ ground_truth \in IF auto_interaction THEN GroundTruths ELSE { NoGroundTruth }
    /\ enumerator = NoEnumerator
    /\ programs = << >>
    /\ indistinguishable = 0
    /\ num_interactions = 0
    /\ die = FALSE
    /\ dep = 0
    /\ regex = NoProgram
    /\ new_predicates = None
    /\ prompt = NoPrompt
    /\ pc = "construct"
    /\ outcome = Running
    /\ depths_tried = << >>
    /\ broke_on = None
    /\ killed_at_answer = FALSE
    /\ reprompted = FALSE
    /\ last_line = NoLine

\* __init__ with its assert skipped
construction_fault_no_assert(auto, gt, exs) ==
    IF Len(exs) = 0 THEN "ValueError" ELSE None

\* multiple_synthesizer.py:42-43 `assert len(self.ground_truth) > 0 and
\* is_regex(self.ground_truth)` in automatic mode, then 46-47 constructing
\* the Decider, example_decider.py:19-21 `if len(examples) == 0: raise
\* ValueError`: the exception the constructor raises, or None
construction_fault(auto, gt, exs) ==
    IF auto /\ ~ (gt.text # "" /\ is_regex(gt.text)) THEN "AssertionError"
    ELSE IF Len(exs) = 0 THEN "ValueError"
    ELSE None

\* MultipleSynthesizer.__init__, 25-69
construct ==
    /\ pc = "construct"
    /\ examples' = InitialExamples(valid, invalid)
    /\ LET fault == construction_fault(auto_interaction, ground_truth, examples')
       IN  IF fault # None
           THEN /\ outcome' = Raised(fault)
                /\ pc' = "done"
           ELSE /\ pc' = "synthesize"
                /\ UNCHANGED outcome
    /\ UNCHANGED << valid, invalid, pruning, auto_interaction, ground_truth,
                    enumerator, programs, indistinguishable, num_interactions,
                    die, dep, regex, new_predicates, prompt, depths_tried,
                    broke_on, killed_at_answer, reprompted, last_line >>

Next ==
    \/ synthesize_start
    \/ try_for_depth_enumerate
    \/ try_for_depth_poll
    \/ try_for_depth_analyze
    \/ try_for_depth_capture
    \/ try_for_depth_distinguish
    \/ interact_answer
    \/ interact_reprompt
    \/ try_for_depth_threshold
    \/ try_for_depth_update
    \/ synthesize_check
    \/ kill

Spec == Init /\ [][Next]_vars

\* interact(), 163-173: the user types a line that is accepted
interact_accepted == interact_answer /\ pc' = "threshold"

\* The interpreter keeps executing the single thread of synthesize (some
\* step is eventually taken while one is possible), and the user, asked again
\* and again, eventually types a line that is accepted.
SpecLive == Spec /\ WF_vars(Next) /\ SF_vars(interact_accepted)

\* a run from the call of the constructor on
NextConstruct == construct \/ Next

SpecConstruct == InitConstruct /\ [][NextConstruct]_vars

(* ------------- validate.py main and SingleSynthesizer.synthesize ------- *)
\* validate.py:39-40 `maxdep = 6`, `for dep in range(3, maxdep + 1)`
maxdep == 6
MainMinDepth == 3

\* `return program` / `return None` of SingleSynthesizer.synthesize
Returned(program) == [kind |-> "returned", value |-> program]

\* Decider.analyze_interpreter_error(e): the predicates it builds, or None
AnalyzeInterpreterErrorResults == { None, "predicates" }

\* singleSynthesizer.py:63 evaluates `self._decider.interpreter()` for the
\* log message: with a Decider whose `interpreter` is a property
\* (example_decider.py:24-26) this calls the Interpreter object and raises
\* TypeError inside the handler; with a Decider whose `interpreter` is a
\* method the handler goes on.  The exceptions the handler may raise, None
\* for none.
HandlerFaults == { None, "TypeError" }

\* validate.py main before its loop: the Decider holds the parsed examples.
\* The variables of MultipleSynthesizer keep their initial values.
InitSingle ==
    /\ valid \in ExampleLists(MaxInit)
    /\ invalid \in ExampleLists(MaxInit)
    /\ Len(valid) + Len(invalid) > 0
    /\ examples = InitialExamples(valid, invalid)
    /\ pruning = TRUE
    /\ auto_interaction = FALSE
    /\ ground_truth = NoGroundTruth
    /\ enumerator = NoEnumerator
    /\ programs = << >>
    /\ indistinguishable = 0
    /\ num_interactions = 0
    /\ die = FALSE
    /\ dep = 0
    /\ regex = NoProgram
    /\ new_predicates = None
    /\ prompt = NoPrompt
    /\ pc = "main"
    /\ outcome = Running
    /\ depths_tried = << >>
    /\ broke_on = None
    /\ killed_at_answer = FALSE
    /\ reprompted = FALSE
    /\ last_line = NoLine

\* validate.py:40-48: the next iteration of `for dep in range(3, maxdep + 1)`
\* creates an Enumerator and a Synthesizer and calls synthesize();
\* validate.py:55 after the last iteration
main_loop ==
    /\ pc = "main"
    /\ LET d == IF dep = 0 THEN MainMinDepth ELSE dep + 1
       IN  IF d <= maxdep
           THEN /\ dep' = d
                /\ enumerator' = NewEnumerator(d)
                /\ depths_tried' = Append(depths_tried, d)
                /\ outcome' = Running
                /\ pc' = "single_next"
           ELSE /\ pc' = "done"
                /\ UNCHANGED << dep, enumerator, depths_tried, outcome >>
    /\ UNCHANGED << valid, invalid, examples, pruning, auto_interaction,
                    ground_truth, programs, indistinguishable,
                    num_interactions, die, regex, new_predicates, prompt,
                    broke_on, killed_at_answer, reprompted, last_line >>

\* singleSynthesizer.py:36 / 60 / 65 `program = self._enumerator.next()`,
\* then 37 `while program is not None` and 66-68 `return None`
synthesize_next ==
    /\ pc = "single_next"
    /\ \E p \in EnumeratorNext(enumerator) :
          /\ enumerator' = EnumeratorAfterNext(enumerator, p)
          /\ regex' = p
          /\ IF p = NoProgram
             THEN /\ outcome' = Returned(NoProgram)
                  /\ pc' = "main_check"
             ELSE /\ pc' = "single_analyze"
                  /\ UNCHANGED outcome
    /\ UNCHANGED << valid, invalid, examples, pruning, auto_interaction,
                    ground_truth, programs, indistinguishable,
                    num_interactions, die, dep, new_predicates, prompt,
                    depths_tried, broke_on, killed_at_answer, reprompted,
                    last_line >>

\* singleSynthesizer.py:47-58 and the handler, 61-63
synthesize_analyze ==
    /\ pc = "single_analyze"
    /\ LET res == analyze(regex, examples)
       IN  \/ /\ res = "ok"
              /\ outcome' = Returned(regex)
              /\ pc' = "main_check"
              /\ UNCHANGED new_predicates
           \/ /\ res = "bad"
              /\ new_predicates' \in WhyResults
              /\ pc' = "single_update"
              /\ UNCHANGED outcome
           \/ /\ res = "InterpreterError"
              /\ \E fault \in HandlerFaults :
                    IF fault = None
                    THEN /\ new_predicates' \in AnalyzeInterpreterErrorResults
                         /\ pc' = "single_update"
                         /\ UNCHANGED outcome
                    ELSE /\ outcome' = Raised(fault)
                         /\ pc' = "done"
                         /\ UNCHANGED new_predicates
    /\ UNCHANGED << valid, invalid, examples, pruning, auto_interaction,
                    ground_truth, enumerator, programs, indistinguishable,
                    num_interactions, die, dep, regex, prompt, depths_tried,
                    broke_on, killed_at_answer, reprompted, last_line >>

\* singleSynthesizer.py:59 / 64 `self._enumerator.update(new_predicates)`
synthesize_update ==
    /\ pc = "single_update"
    /\ enumerator' = EnumeratorUpdate(enumerator, new_predicates)
    /\ pc' = "single_next"
    /\ UNCHANGED << valid, invalid, examples, pruning, auto_interaction,
                    ground_truth, programs, indistinguishable,
                    num_interactions, die, dep, regex, new_predicates,
                    prompt, outcome,
                    depths_tried, broke_on, killed_at_answer, reprompted,
                    last_line >>

\* validate.py:50-53 `if program is not None: ... return`
main_check ==
    /\ pc = "main_check"
    /\ pc' = IF outcome.value # NoProgram THEN "done" ELSE "main"
    /\ UNCHANGED << valid, invalid, examples, pruning, auto_interaction,
                    ground_truth, enumerator, programs, indistinguishable,
                    num_interactions, die, dep, regex, new_predicates,
                    prompt, outcome, depths_tried, broke_on,
                    killed_at_answer, reprompted, last_line >>

NextSingle ==
    \/ main_loop
    \/ synthesize_next
    \/ synthesize_analyze
    \/ synthesize_update
    \/ main_check

SpecSingle == InitSingle /\ [][NextSingle]_vars

(* ------------- both synthesizers, for the Enumerator protocol ---------- *)
\* the positions of main and SingleSynthesizer.synthesize
SinglePositions ==
    { "main", "single_next", "single_analyze", "single_update", "main_check" }

\* a run of either program
InitEither == Init \/ InitSingle

NextEither ==
    \/ NextSingle
    \/ (pc \notin SinglePositions /\ Next)

SpecEither == InitEither /\ [][NextEither]_vars

(***************************************************************************)
(*                               Claims                                    *)
(***************************************************************************)
InitialLen == Len(valid) + Len(invalid)

\* try_for_depth has returned to synthesize and synthesize has ended
SearchEnded == pc = "done" /\ broke_on # None

\* C1: synthesize tries depths in increasing order from 3 with a fresh
\* Enumerator each, and as soon as a depth's search ends with a non-empty
\* candidate set it returns the first (Program, Captures) pair of that set
\* and creates no Enumerator for a larger depth.
C1_ReturnsFirstCandidate ==
    (SearchEnded /\ Len(programs) > 0) =>
        /\ outcome.kind = "returned"
        /\ outcome.value = programs[1]
        /\ depths_tried = << MinDepth >>

C3_ExhaustedReportsNoSolution ==
    (SearchEnded /\ broke_on = "exhausted" /\ programs = << >> /\ ~ die) =>
        /\ outcome.kind = "returned"
        /\ outcome.value = None
        /\ depths_tried = [ k \in 1..(max_depth - MinDepth + 1) |-> MinDepth + k - 1 ]

\* C4: what a run that ended on the kill flag hands back differs from what a
\* run that ended on exhaustion without a solution hands back.
\* (NoSolutionHandsBack: what synthesize hands back when its search ends on
\* exhaustion with no candidate, the state C3 is about)
NoSolutionHandsBack == Raised("AttributeError")

C4_KilledDiffersFromNoSolution ==
    (SearchEnded /\ broke_on = "killed" /\ programs = << >>) =>
        outcome # NoSolutionHandsBack

\* C5: once the loop observes the kill flag, the Program just enumerated is
\* not analysed, no Enumerator is created for a later depth, and synthesize
\* returns normally instead of raising.
C5_KilledReturnsNormally ==
    (SearchEnded /\ broke_on = "killed") =>
        /\ depths_tried = << dep >>
        /\ outcome.kind = "returned"

\* C6: if the kill flag was set before an oracle interaction finished, then
\* after the interaction returns no Enumerator.next or Enumerator.update call
\* is made (the Enumerator's state does not change any more).
C6_NoEnumeratorCallAfterKilledAnswer ==
    [][killed_at_answer => enumerator' = enumerator]_vars

\* the Interpreter evaluates prog on the example's input to the example's label
Reproduces(prog, ex) == ~ Malformed(prog) /\ (Matches(prog, ex.input) <=> ex.output)

\* the Interpreter evaluates prog on the example's input to the other label
Contradicts(prog, ex) == ~ Malformed(prog) /\ (Matches(prog, ex.input) <=> ~ ex.output)

ExampleIndices == 1..Len(examples)

\* C7: analyze(program) is Ok exactly when every recorded Example (initial
\* or oracle-added) is reproduced, Bad exactly when the Interpreter evaluates
\* some recorded Example to the other label, and get_failed_examples is
\* empty exactly when analyze is Ok; a Program the search loop accepts
\* reproduces every recorded Example.
C7_AcceptanceSound ==
    /\ \A p \in Programs :
          LET verdict == analyze(p, examples)
              failed == get_failed_examples(p, examples)
          IN  /\ verdict = "ok" <=> \A k \in ExampleIndices : Reproduces(p, examples[k])
              /\ verdict = "bad" <=> \E k \in ExampleIndices : Contradicts(p, examples[k])
              /\ (~ failed.raises /\ failed.failed = << >>) <=> verdict = "ok"
    /\ pc = "capture" => \A k \in ExampleIndices : Reproduces(regex, examples[k])

\* C7 witness: the loop has accepted a Program against an example list that
\* holds an oracle-added Example, while another Program is Bad on that list
C7_Witness ==
    /\ pc = "capture"
    /\ Len(examples) > InitialLen
    /\ \E p \in Programs : analyze(p, examples) = "bad"

\* C8: at every point of the loop every (Program, Captures) pair of the
\* candidate set reproduces the label of every recorded Example, those
\* appended by oracle answers included.
C8_CandidatesConsistent ==
    \A c \in 1..Len(programs) : \A k \in ExampleIndices :
        Reproduces(programs[c].regex, examples[k])

\* C8 witness: a candidate survived an oracle answer and a later
\* indistinguishable collapse
C8_Witness ==
    /\ Len(programs) = 1
    /\ Len(examples) > InitialLen
    /\ indistinguishable > 0

IsPrefix(s, t) == Len(s) <= Len(t) /\ SubSeq(t, 1, Len(s)) = s

\* C9: the recorded example list only grows by appending: every step leaves
\* the earlier list a prefix of the later one.
C9_ExamplesOnlyAppended == [][IsPrefix(examples, examples')]_vars

\* C9 witness: an oracle answer was appended after the initial examples
C9_Witness ==
    /\ Len(examples) = InitialLen + 1
    /\ SubSeq(examples, 1, InitialLen) = InitialExamples(valid, invalid)
    /\ num_interactions > 0

\* C10: for every fixed Program, a Bad verdict stays Bad when the example
\* list is extended (Ok may turn into Bad, never Bad into Ok).
C10_BadStaysBad ==
    [][\A p \in Programs :
          analyze(p, examples) = "bad" => analyze(p, examples') = "bad"]_vars

\* C10 witness: a Program that was Ok on the initial examples is Bad on the
\* extended list, next to one that was Bad on both
C10_Witness ==
    /\ Len(examples) > InitialLen
    /\ \E p \in Programs :
          /\ analyze(p, InitialExamples(valid, invalid)) = "ok"
          /\ analyze(p, examples) = "bad"
    /\ \E p \in Programs :
          /\ analyze(p, InitialExamples(valid, invalid)) = "bad"
          /\ analyze(p, examples) = "bad"

(* ------------------ C11: no conflicting labels ------------------------- *)
\* the initial example set labels some input both valid and invalid
InitialConflict ==
    \E a \in 1..Len(valid), b \in 1..Len(invalid) : valid[a] = invalid[b]

\* the input i carries a label in exs
Labelled(exs, i) == \E k \in 1..Len(exs) : exs[k].input = i

\* two examples of exs give the same input different labels
ConflictingLabels(exs) ==
    \E j \in 1..Len(exs), k \in 1..Len(exs) :
        exs[j].input = exs[k].input /\ exs[j].output # exs[k].output

\* C11: provided the initial example set labels no input both valid and
\* invalid, no reachable state holds two Examples with the same input and
\* conflicting labels; the input the user is asked about, and every input
\* whose answer is appended (interactive or automatic, whatever the answer),
\* carries no label in the example set yet.
C11_NoConflictingLabels ==
    /\ [](~ InitialConflict =>
            /\ ~ ConflictingLabels(examples)
            /\ (pc \in { "interact", "reprompt" } =>
                   ~ Labelled(examples, prompt.dist_input)))
    /\ [][(~ InitialConflict /\ Len(examples') > Len(examples)) =>
            /\ Len(examples') = Len(examples) + 1
            /\ ~ Labelled(examples, examples'[Len(examples')].input)]_vars

\* an oracle answer has been appended to a conflict-free initial set
C11_Witness ==
    /\ ~ InitialConflict
    /\ Len(examples) > InitialLen
    /\ pc = "threshold"

(* ------------- C12: one recorded answer per distinguishing input ------- *)
\* the candidates of cands whose own verdict on input i is the label out
Agreeing(cands, i, out) == SelectSeq(cands, LAMBDA c : Matches(c.regex, i) <=> out)

\* C12: when the oracle is consulted, every candidate (those the
\* Distinguisher left undetermined included) has been placed by its own
\* verdict on the distinguishing input in keep_if_valid or keep_if_invalid;
\* and the answer is recorded exactly once: each call of distinguish that
\* returns an input adds one to the interaction counter and, once answered,
\* one Example, however many lines were rejected before the accepted one.
C12_AnswerRecordedOnce ==
    /\ [](/\ pc \in { "interact", "reprompt" } =>
                /\ prompt.keep_if_valid =
                       Agreeing(programs, prompt.dist_input, TRUE)
                /\ prompt.keep_if_invalid =
                       Agreeing(programs, prompt.dist_input, FALSE)
          /\ Len(examples) =
                InitialLen + num_interactions
                    - (IF pc \in { "interact", "reprompt" } THEN 1 ELSE 0))
    /\ [][/\ num_interactions' \in { num_interactions, num_interactions + 1 }
          /\ Len(examples') \in { Len(examples), Len(examples) + 1 }
          /\ (pc = "interact" /\ pc' = "threshold") =>
                /\ Len(examples') = Len(examples) + 1
                /\ num_interactions' = num_interactions
          /\ pc' = "reprompt" =>
                UNCHANGED << examples, num_interactions >>
          /\ (pc = "distinguish" /\ Len(examples') > Len(examples)) =>
                /\ num_interactions' = num_interactions + 1
                /\ \E i \in Inputs, out \in BOOLEAN :
                      /\ examples' = Append(examples, Example(i, out))
                      /\ programs' = Agreeing(programs, i, out)]_vars

\* an answer has been accepted after a rejected line, and recorded once
C12_Witness ==
    /\ pc = "threshold"
    /\ reprompted
    /\ last_line \in Answers
    /\ num_interactions = 1
    /\ Len(examples) = InitialLen + 1

(* ------------- C13: the answer replaces the candidate set -------------- *)
\* the Example a step has appended
NewExample == examples'[Len(examples')]

\* C13: a step that records an oracle answer appends the asked input with
\* the answered label (the user's token, or the ground truth's verdict) and
\* replaces the candidate set by the partition matching the answer: the new
\* candidates are exactly the old ones whose own verdict on the input is the
\* answer, in their old order, and the new set is non-empty and strictly
\* smaller than the old one.
C13_AnswerKeepsMatchingPartition ==
    [][Len(examples') > Len(examples) =>
         /\ examples' = Append(examples, NewExample)
         /\ IF pc = "interact"
            THEN /\ NewExample.input = prompt.dist_input
                 /\ NewExample.output = (last_line'.token \in yes_values)
                 /\ programs' = IF NewExample.output THEN prompt.keep_if_valid
                                ELSE prompt.keep_if_invalid
            ELSE /\ auto_interaction
                 /\ NewExample.output = (NewExample.input \in ground_truth.language)
         /\ programs' = Agreeing(programs, NewExample.input, NewExample.output)
         /\ \A k \in 1..Len(programs) :
               (Matches(programs[k].regex, NewExample.input) # NewExample.output)
                  => \A j \in 1..Len(programs') : programs'[j] # programs[k]
         /\ Len(programs') >= 1
         /\ Len(programs') < Len(programs)]_vars

\* the user has answered 'no' and the set collapsed to the one rejecting Program
C13_Witness ==
    /\ pc = "threshold"
    /\ last_line \in Answers
    /\ last_line.token \in no_values
    /\ Len(programs) = 1
    /\ ~ Matches(programs[1].regex, examples[Len(examples)].input)

(* ------------- C14: a malformed answer only reprompts ------------------ *)
\* the line x spells, in any letter case and with any surrounding
\* whitespace, a token of neither set
Unrecognised(x) == x.token \notin yes_values \cup no_values

\* C14: in interactive mode a line in neither token set leaves interact
\* waiting at the same prompt for the same distinguishing input, and changes
\* neither the example set, the candidate set, the interaction counter nor
\* the indistinguishable counter; no fault is raised.
C14_MalformedAnswerReprompts ==
    [][/\ (pc = "interact" /\ last_line' # last_line /\ Unrecognised(last_line')) =>
            /\ pc' = "reprompt"
            /\ outcome' = Running
            /\ UNCHANGED << examples, programs, num_interactions,
                            indistinguishable, enumerator, regex, prompt >>
       /\ (pc = "reprompt" /\ pc' # "reprompt") =>
            /\ pc' = "interact"
            /\ reprompted'
            /\ outcome' = Running
            /\ UNCHANGED << examples, programs, num_interactions,
                            indistinguishable, enumerator, regex, prompt >>]_vars

\* a line in neither token set is being rejected for the second time at the
\* same prompt
C14_Witness ==
    /\ pc = "reprompt"
    /\ reprompted
    /\ last_line.token = "maybe"
    /\ prompt.dist_input \in Inputs

(* ------------- C15: case and whitespace in answers --------------------- *)
\* C15: every line that spells a token of the affirmative (negative) set, in
\* any letter case and with leading and/or trailing whitespace, is accepted
\* as 'valid' ('invalid') with the effect of the bare token: the asked input
\* is recorded with that label and the matching partition is kept.
C15_AnswerVariantsAccepted ==
    [][(/\ pc = "interact"
        /\ last_line' # last_line
        /\ last_line'.token \in yes_values \cup no_values) =>
         /\ pc' = "threshold"
         /\ examples' = Append(examples,
                Example(prompt.dist_input, last_line'.token \in yes_values))
         /\ programs' = IF last_line'.token \in yes_values
                        THEN prompt.keep_if_valid ELSE prompt.keep_if_invalid]_vars

(* ------------- C16: collapse of indistinguishable candidates ----------- *)
\* candidate s is no larger than candidate c: fewer AST nodes, or as many
\* nodes and a rendered form no longer
NoLarger(s, c) ==
    \/ Nodes(s.regex) < Nodes(c.regex)
    \/ /\ Nodes(s.regex) = Nodes(c.regex)
       /\ RenderLen(s.regex) <= RenderLen(c.regex)

\* C16: when the Distinguisher reports no input, the Driver keeps exactly one
\* candidate, one with the fewest AST nodes and among those the shortest
\* rendered form, adds exactly one to the indistinguishable counter, appends
\* no Example and performs no oracle interaction.
C16_KeepsFewestNodes ==
    [][indistinguishable' # indistinguishable =>
         /\ indistinguishable' = indistinguishable + 1
         /\ Len(programs') = 1
         /\ \E k \in 1..Len(programs) :
               /\ programs'[1] = programs[k]
               /\ \A j \in 1..Len(programs) : NoLarger(programs[k], programs[j])
         /\ pc' # "interact"
         /\ UNCHANGED << examples, num_interactions, prompt >>]_vars

(* ------------- C17: the indistinguishable threshold -------------------- *)
\* C17: the indistinguishable counter never decreases; the per-depth loop
\* stops on the threshold exactly when the counter reaches
\* max_indistinguishable, with exactly one survivor in the candidate set;
\* from then on no Program is enumerated at this or a larger depth, and when
\* the run ends that survivor is its result.
C17_ThresholdSurvivorIsResult ==
    [][/\ indistinguishable' >= indistinguishable
       /\ (pc' = "returned" /\ broke_on' = "threshold") <=>
             (pc' = "returned" /\ indistinguishable' = max_indistinguishable)
       /\ broke_on' = "threshold" => Len(programs') = 1
       /\ broke_on = "threshold" => UNCHANGED << enumerator, regex, programs >>
       /\ (pc' = "done" /\ broke_on' = "threshold") =>
             /\ outcome'.kind = "returned"
             /\ outcome'.value = programs'[1]]_vars

\* the part of C17 that concerns the loop alone
ThresholdStopsLoop ==
    [][/\ indistinguishable' >= indistinguishable
       /\ (pc' = "returned" /\ broke_on' = "threshold") <=>
             (pc' = "returned" /\ indistinguishable' = max_indistinguishable)
       /\ broke_on' = "threshold" => Len(programs') = 1
       /\ broke_on = "threshold" => UNCHANGED << enumerator, regex, programs >>]_vars

(* ------------- C18: capture synthesis returning none ------------------- *)
\* C18: every pair of the candidate set (and of the partitions held at a
\* prompt) has Captures that are not absent; an accepted Program for which
\* synthesize_capturing_groups returns none is not added to the candidate
\* set, raises no fault, and leaves the loop running towards the next
\* enumerated Program.
C18_NoCapturesNotACandidate ==
    /\ [](/\ \A k \in 1..Len(programs) : programs[k].captures # None
          /\ \A k \in 1..Len(prompt.keep_if_valid) :
                prompt.keep_if_valid[k].captures # None
          /\ \A k \in 1..Len(prompt.keep_if_invalid) :
                prompt.keep_if_invalid[k].captures # None)
    /\ [][(pc = "capture" /\ pc' # "capture" /\ programs' = programs) =>
            /\ \A k \in 1..Len(programs') : programs'[k].regex # regex
            /\ outcome' = Running
            /\ broke_on' = None
            /\ pc' = IF Len(programs) >= 2 THEN "distinguish" ELSE "threshold"
            /\ UNCHANGED << examples, indistinguishable, enumerator >>]_vars

\* an accepted Program was left out of the empty candidate set
C18_Witness ==
    /\ pc = "threshold"
    /\ programs = << >>
    /\ regex # NoProgram
    /\ analyze(regex, examples) = "ok"
    /\ outcome = Running

(* ------------- C19: evaluation faults ---------------------------------- *)
\* C19: an InterpreterError raised while the Decider analyses the enumerated
\* Program does not leave the loop: the step that analyses such a Program
\* ends with predicates describing the error, about to call
\* Enumerator.update, and the run has raised nothing.
C19_EvaluationFaultCaught ==
    [][(/\ pc = "analyze"
        /\ pc' # "analyze"
        /\ analyze(regex, examples) = "InterpreterError") =>
         /\ pc' = "update"
         /\ new_predicates' # None
         /\ outcome' = Running]_vars

(* ------------- C20: configuration faults ------------------------------- *)
\* the constructor's arguments ask for automatic mode with an empty or
\* non-regex ground truth, or give no example at all
ConfigurationFault ==
    \/ auto_interaction /\ (ground_truth.text = "" \/ ~ is_regex(ground_truth.text))
    \/ valid = << >> /\ invalid = << >>

\* C20: with such arguments construction fails (AssertionError for the
\* ground truth, ValueError for the empty example list) and the run never
\* gets past the constructor: no Enumerator exists, Enumerator.next has
\* returned nothing and no Program has been analysed.
C20_ConfigurationFaultFatal ==
    ConfigurationFault =>
        /\ pc \in { "construct", "done" }
        /\ pc = "done" =>
              /\ outcome.kind = "raised"
              /\ outcome.value \in { "AssertionError", "ValueError" }
              /\ (valid = << >> /\ invalid = << >> /\ ~ auto_interaction)
                    => outcome.value = "ValueError"
              /\ (Len(valid) + Len(invalid) > 0) => outcome.value = "AssertionError"
        /\ enumerator = NoEnumerator
        /\ regex = NoProgram
        /\ depths_tried = << >>
        /\ programs = << >>

\* construction has failed on a ground truth that is not a regex
C20_Witness ==
    /\ pc = "done"
    /\ auto_interaction
    /\ ground_truth.text = "("
    /\ outcome = Raised("AssertionError")

(* ------------- C21: SingleSynthesizer.synthesize ----------------------- *)
\* the Interpreter evaluates prog on every recorded Example to its label
Accepts(prog) == \A k \in ExampleIndices : Reproduces(prog, examples[k])

\* a step of the given position of SingleSynthesizer.synthesize
StepFrom(position) == pc = position /\ pc' # position

\* C21: SingleSynthesizer.synthesize analyses the Programs in the order next
\* yields them and returns the first one the Decider accepts, with no next
\* or update call after the acceptance; a Program that is not accepted is
\* never returned; and it returns None exactly when next reports exhaustion.
C21_SingleReturnsFirstAccepted ==
    /\ [](/\ (outcome.kind = "returned" /\ outcome.value # NoProgram) =>
                /\ outcome.value = regex
                /\ outcome.value = enumerator.cursor
                /\ Accepts(outcome.value)
                /\ ~ enumerator.exhausted
          /\ (outcome.kind = "returned" /\ outcome.value = NoProgram) =>
                enumerator.exhausted
          /\ pc = "main_check" => outcome.kind = "returned")
    /\ [][/\ StepFrom("single_analyze") =>
                IF Accepts(regex)
                THEN /\ outcome' = Returned(regex)
                     /\ pc' = "main_check"
                ELSE /\ outcome'.kind # "returned"
                     /\ pc' \in { "single_update", "done" }
          /\ StepFrom("single_next") =>
                IF enumerator'.exhausted
                THEN /\ outcome' = Returned(NoProgram)
                     /\ pc' = "main_check"
                ELSE /\ outcome' = Running
                     /\ pc' = "single_analyze"
          /\ (outcome.kind = "returned" /\ outcome.value # NoProgram) =>
                enumerator' = enumerator]_vars

\* a Program is returned at a depth reached after synthesize returned None
C21_Witness ==
    /\ pc = "main_check"
    /\ dep > MainMinDepth
    /\ outcome.kind = "returned"
    /\ outcome.value # NoProgram

(* ------------- C22: Enumerator protocol -------------------------------- *)
\* a step that calls next, or update, on the current Enumerator
NextCall == StepFrom("enumerate") \/ StepFrom("single_next")
UpdateCall == StepFrom("update") \/ StepFrom("single_update")

\* C22: on one Enumerator instance next and update alternate: next is only
\* called when the Program of the previous next has been updated, update
\* only when a Program is waiting for it (so exactly one update lies between
\* two next calls), neither is called once next has reported exhaustion,
\* and update receives the Decider's predicates for a rejected Program when
\* pruning is on and none otherwise (acceptance, rejection without
\* explanation, pruning off).
C22_NextUpdateAlternate ==
    /\ [](/\ (pc \in { "update", "single_update" } /\ new_predicates # None) =>
                ~ Accepts(regex)
          /\ pc \in { "capture", "distinguish", "interact", "reprompt", "threshold" } =>
                new_predicates = None)
    /\ [][/\ enumerator' # enumerator =>
                \/ NextCall
                \/ UpdateCall
                \/ enumerator'.depth # enumerator.depth
          /\ NextCall =>
                /\ ~ enumerator.pending
                /\ ~ enumerator.exhausted
                /\ enumerator'.pending <=> regex' # NoProgram
                /\ enumerator'.exhausted <=> regex' = NoProgram
          /\ UpdateCall =>
                /\ enumerator.pending
                /\ ~ enumerator.exhausted
                /\ ~ enumerator'.pending
                /\ enumerator'.cursor = enumerator.cursor
                /\ enumerator'.last_update =
                       IF pruning /\ new_predicates # None
                       THEN new_predicates ELSE "none"]_vars

\* a rejected Program's predicates have been handed to update, and next is due
C22_Witness ==
    /\ pc \in { "enumerate", "single_next" }
    /\ pruning
    /\ enumerator.last_update = "predicates"
    /\ ~ enumerator.pending

(* ------------- C23: terminate on every terminal outcome ---------------- *)
\* C23: whatever ends the search (candidates found, the kill flag,
\* exhaustion), terminate has been called exactly once when synthesize is
\* over, so the run's report (solution or 'No solution') has been emitted.
C23_TerminateCalledOnce ==
    SearchEnded => terminate_calls = 1

(* ------------- C24: termination ---------------------------------------- *)
\* C24: with finite Enumerators and a user who eventually gives a recognised
\* answer, every run of synthesize eventually ends in a terminal outcome
\* (Found, Killed or Exhausted: synthesize returns), without revisiting a
\* depth.
C24_ReachesTerminalOutcome ==
    /\ [](\A j \in 1..Len(depths_tried), k \in 1..Len(depths_tried) :
             j < k => depths_tried[j] < depths_tried[k])
    /\ <>(pc = "done" /\ outcome.kind = "returned")

\* the part of C24 that concerns the loops alone: the run does not go on
\* forever inside a depth, and no depth is searched twice
RunEnds ==
    /\ [](\A j \in 1..Len(depths_tried), k \in 1..Len(depths_tried) :
             j < k => depths_tried[j] < depths_tried[k])
    /\ <>(pc = "done")

(* ------------- C25: a new depth starts from the initial state ---------- *)
\* C25: whenever synthesize starts the search at a depth, the candidate set
\* is empty and the example set is the initial one; an oracle answer is only
\* recorded while at least two candidates exist and leaves at least one;
\* and once an Example has been appended the run starts no further depth.
C25_NewDepthStartsClean ==
    [][/\ depths_tried' # depths_tried =>
            /\ programs = << >>
            /\ examples = InitialExamples(valid, invalid)
            /\ UNCHANGED << programs, examples >>
       /\ Len(examples') > Len(examples) =>
            /\ Len(programs) >= 2
            /\ Len(programs') >= 1
       /\ Len(examples) > InitialLen =>
            UNCHANGED << depths_tried, dep >>]_vars

\* a run in which an answer was recorded is over, at the depth of the answer
C25_Witness ==
    /\ pc = "done"
    /\ Len(examples) > InitialLen
    /\ depths_tried = << dep >>
    /\ programs # << >>

====
